---- MODULE Spec2Model ----
(***************************************************************************)
(* SemverSpecifier (slap.core.semver): the specifier grammar, the version  *)
(* selectors it builds, and their canonical forms.                         *)
(*                                                                         *)
(* Text is a sequence of one-character strings.  Regular expressions are   *)
(* syntax trees interpreted by a backtracking matcher that returns its     *)
(* outcomes in the order Python's re tries them, so the groups of the      *)
(* first outcome are the groups of the match object.                       *)
(***************************************************************************)
EXTENDS Integers, Sequences, FiniteSets, TLC

\* ------------------------------------------------------------------ text

DigitChars == <<"0", "1", "2", "3", "4", "5", "6", "7", "8", "9">>

DigitSet == {DigitChars[k] : k \in 1..10}

LowerChars == <<"a", "b", "c", "d", "e", "f", "g", "h", "i", "j", "k", "l", "m",
                "n", "o", "p", "q", "r", "s", "t", "u", "v", "w", "x", "y", "z">>

UpperChars == <<"A", "B", "C", "D", "E", "F", "G", "H", "I", "J", "K", "L", "M",
                "N", "O", "P", "Q", "R", "S", "T", "U", "V", "W", "X", "Y", "Z">>

LowerSet == {LowerChars[k] : k \in 1..26}

UpperSet == {UpperChars[k] : k \in 1..26}

\* The white space (\s) that occurs in the inputs.
SpaceSet == {" "}

\* str.lower() of one character (and re.IGNORECASE's folding).
LowerChar(c) ==
    IF c \in UpperSet
    THEN LowerChars[CHOOSE k \in 1..26 : UpperChars[k] = c]
    ELSE c

LowerText(t) == [k \in 1..Len(t) |-> LowerChar(t[k])]

DigitValue(c) == (CHOOSE k \in 1..10 : DigitChars[k] = c) - 1

IsDigits(t) == Len(t) > 0 /\ \A k \in 1..Len(t) : t[k] \in DigitSet

\* int(text) for a text of decimal digits.
RECURSIVE ParseInt(_)
ParseInt(t) ==
    IF Len(t) = 0 THEN 0
    ELSE ParseInt(SubSeq(t, 1, Len(t) - 1)) * 10 + DigitValue(t[Len(t)])

\* str(n) for a non-negative integer.
RECURSIVE FormatInt(_)
FormatInt(n) ==
    IF n < 10 THEN <<DigitChars[n + 1]>>
    ELSE FormatInt(n \div 10) \o <<DigitChars[(n % 10) + 1]>>

\* sep.join(texts)
RECURSIVE Join(_, _)
Join(sep, texts) ==
    IF Len(texts) = 0 THEN <<>>
    ELSE IF Len(texts) = 1 THEN texts[1]
    ELSE texts[1] \o sep \o Join(sep, Tail(texts))

\* text.split(sep) for a one-character separator.
RECURSIVE SplitFrom(_, _, _, _)
SplitFrom(t, sep, k, cur) ==
    IF k > Len(t) THEN <<cur>>
    ELSE IF t[k] = sep THEN <<cur>> \o SplitFrom(t, sep, k + 1, <<>>)
    ELSE SplitFrom(t, sep, k + 1, Append(cur, t[k]))

Split(t, sep) == SplitFrom(t, sep, 1, <<>>)

\* ----------------------------------------------------- regular expressions

\* Syntax trees.
Lit(c) == <<"lit", c>>
Set(cs) == <<"set", cs>>
Cat(ns) == <<"cat", ns>>
Alt(ns) == <<"alt", ns>>
Opt(n) == <<"rep", n, 0, 1>>
Rep(n, lo, hi) == <<"rep", n, lo, hi>>
Star(n) == <<"star", n>>
Plus(n) == <<"cat", <<n, <<"star", n>>>>>>
Group(name, n) == <<"group", name, n>>
Ahead(n) == <<"ahead", n>>
NotAhead(n) == <<"notahead", n>>
Behind(n) == <<"behind", n>>
NotBehind(n) == <<"notbehind", n>>
Empty == <<"cat", <<>>>>
Bos == <<"bos">>
Eos == <<"eos">>
Word(w) == <<"cat", [k \in 1..Len(w) |-> <<"lit", w[k]>>]>>
Digit == Set(DigitSet)
Space == Set(SpaceSet)

None == <<>>

Some(v) == <<v>>

Here(i, c) == <<[pos |-> i, caps |-> c]>>

\* The outcomes of matching node n at position i of s with captures c, in the
\* order a backtracking matcher tries them (greedy repeats, ordered alternation).
RECURSIVE Match(_, _, _, _), MatchCat(_, _, _, _, _), MatchCatEach(_, _, _, _, _),
          MatchAlt(_, _, _, _, _), MatchRep(_, _, _, _, _, _),
          MatchRepEach(_, _, _, _, _, _), MatchStar(_, _, _, _),
          MatchStarEach(_, _, _, _, _)
Match(n, s, i, c) ==
    CASE n[1] = "lit" ->
           IF i <= Len(s) /\ LowerChar(s[i]) = n[2] THEN Here(i + 1, c) ELSE <<>>
      [] n[1] = "set" ->
           IF i <= Len(s) /\ LowerChar(s[i]) \in n[2] THEN Here(i + 1, c) ELSE <<>>
      [] n[1] = "cat" -> MatchCat(n[2], 1, s, i, c)
      [] n[1] = "alt" -> MatchAlt(n[2], 1, s, i, c)
      [] n[1] = "rep" -> MatchRep(n[2], n[3], n[4], s, i, c)
      [] n[1] = "star" -> MatchStar(n[2], s, i, c)
      [] n[1] = "group" ->
           LET rs == Match(n[3], s, i, c)
           IN  [k \in 1..Len(rs) |->
                  [pos |-> rs[k].pos,
                   caps |-> [rs[k].caps EXCEPT
                               ![n[2]] = Some(SubSeq(s, i, rs[k].pos - 1))]]]
      [] n[1] = "ahead" -> IF Len(Match(n[2], s, i, c)) > 0 THEN Here(i, c) ELSE <<>>
      [] n[1] = "notahead" -> IF Len(Match(n[2], s, i, c)) = 0 THEN Here(i, c) ELSE <<>>
      [] n[1] = "behind" ->
           IF \E j \in 1..i : \E k \in DOMAIN Match(n[2], s, j, c) :
                  Match(n[2], s, j, c)[k].pos = i
           THEN Here(i, c) ELSE <<>>
      [] n[1] = "notbehind" ->
           IF \E j \in 1..i : \E k \in DOMAIN Match(n[2], s, j, c) :
                  Match(n[2], s, j, c)[k].pos = i
           THEN <<>> ELSE Here(i, c)
      [] n[1] = "bos" -> IF i = 1 THEN Here(i, c) ELSE <<>>
      [] n[1] = "eos" -> IF i = Len(s) + 1 THEN Here(i, c) ELSE <<>>

MatchCat(ns, k, s, i, c) ==
    IF k > Len(ns) THEN Here(i, c)
    ELSE MatchCatEach(Match(ns[k], s, i, c), 1, ns, k + 1, s)

MatchCatEach(rs, j, ns, k, s) ==
    IF j > Len(rs) THEN <<>>
    ELSE MatchCat(ns, k, s, rs[j].pos, rs[j].caps) \o MatchCatEach(rs, j + 1, ns, k, s)

MatchAlt(ns, k, s, i, c) ==
    IF k > Len(ns) THEN <<>>
    ELSE Match(ns[k], s, i, c) \o MatchAlt(ns, k + 1, s, i, c)

MatchRep(n, lo, hi, s, i, c) ==
    IF hi = 0 THEN Here(i, c)
    ELSE MatchRepEach(Match(n, s, i, c), 1, n, lo, hi, s)
         \o (IF lo <= 0 THEN Here(i, c) ELSE <<>>)

MatchRepEach(rs, j, n, lo, hi, s) ==
    IF j > Len(rs) THEN <<>>
    ELSE MatchRep(n, lo - 1, hi - 1, s, rs[j].pos, rs[j].caps)
         \o MatchRepEach(rs, j + 1, n, lo, hi, s)

MatchStar(n, s, i, c) ==
    MatchStarEach(Match(n, s, i, c), 1, n, s, i) \o Here(i, c)

MatchStarEach(rs, j, n, s, i) ==
    IF j > Len(rs) THEN <<>>
    ELSE (IF rs[j].pos > i THEN MatchStar(n, s, rs[j].pos, rs[j].caps) ELSE <<>>)
         \o MatchStarEach(rs, j + 1, n, s, i)

\* pattern.search(s) for a pattern anchored at both ends: the captures of the
\* first outcome, or no match.
Search(n, groups, s) ==
    LET rs == Match(n, s, 1, [g \in groups |-> None])
    IN  IF Len(rs) = 0 THEN [matched |-> FALSE, group |-> [g \in groups |-> None]]
        ELSE [matched |-> TRUE, group |-> rs[1].caps]

\* -------------------------------------------------- packaging.version.Version

\* The specifier imports Version and canonicalize_version from packaging (a
\* release that still has _IndividualSpecifier and ParsedVersion, so < 22).
\* They are modelled after that library: the version pattern, the parsed
\* fields, __str__, public, equality by the comparison key, and the
\* canonical text, which drops the release's trailing ".0"s.

Separator == Set({"-", "_", "."})

AlphaNum == Set(LowerSet \cup DigitSet)

\* packaging.version.VERSION_PATTERN between "^\s*" and "\s*$".
VersionPattern ==
    Cat(<<
        Bos, Star(Space),
        Opt(Lit("v")),
        Opt(Cat(<<Group("epoch", Plus(Digit)), Lit("!")>>)),
        Group("release", Cat(<<Plus(Digit), Star(Cat(<<Lit("."), Plus(Digit)>>))>>)),
        Opt(Group("pre", Cat(<<
            Opt(Separator),
            Group("pre_l", Alt(<<Word(<<"a">>), Word(<<"b">>), Word(<<"c">>),
                                 Word(<<"r", "c">>),
                                 Word(<<"a", "l", "p", "h", "a">>),
                                 Word(<<"b", "e", "t", "a">>),
                                 Word(<<"p", "r", "e">>),
                                 Word(<<"p", "r", "e", "v", "i", "e", "w">>)>>)),
            Opt(Separator),
            Opt(Group("pre_n", Plus(Digit)))>>))),
        Opt(Group("post", Alt(<<
            Cat(<<Lit("-"), Group("post_n1", Plus(Digit))>>),
            Cat(<<
                Opt(Separator),
                Group("post_l", Alt(<<Word(<<"p", "o", "s", "t">>),
                                      Word(<<"r", "e", "v">>),
                                      Word(<<"r">>)>>)),
                Opt(Separator),
                Opt(Group("post_n2", Plus(Digit)))>>)>>))),
        Opt(Group("dev", Cat(<<
            Opt(Separator),
            Group("dev_l", Word(<<"d", "e", "v">>)),
            Opt(Separator),
            Opt(Group("dev_n", Plus(Digit)))>>))),
        Opt(Cat(<<Lit("+"),
                  Group("local", Cat(<<Plus(AlphaNum),
                                       Star(Cat(<<Separator, Plus(AlphaNum)>>))>>))>>)),
        Star(Space), Eos>>)

VersionGroups ==
    {"epoch", "release", "pre", "pre_l", "pre_n", "post", "post_n1", "post_l",
     "post_n2", "dev", "dev_l", "dev_n", "local"}

\* packaging.version._parse_letter_version: None, or <<letter, number>>.
ParseLetterVersion(letter, number) ==
    IF letter # None
    THEN LET l == LowerText(letter[1])
             norm == CASE l = <<"a", "l", "p", "h", "a">> -> <<"a">>
                       [] l = <<"b", "e", "t", "a">> -> <<"b">>
                       [] l \in {<<"c">>, <<"p", "r", "e">>,
                                 <<"p", "r", "e", "v", "i", "e", "w">>} -> <<"r", "c">>
                       [] l \in {<<"r", "e", "v">>, <<"r">>} -> <<"p", "o", "s", "t">>
                       [] OTHER -> l
         IN  Some(<<norm, IF number = None THEN 0 ELSE ParseInt(number[1])>>)
    ELSE IF number # None
    THEN Some(<<<<"p", "o", "s", "t">>, ParseInt(number[1])>>)
    ELSE None

\* re.split of packaging.version._local_version_separators ([._-]).
RECURSIVE SplitLocal(_, _, _)
SplitLocal(t, k, cur) ==
    IF k > Len(t) THEN <<cur>>
    ELSE IF t[k] \in {".", "_", "-"} THEN <<cur>> \o SplitLocal(t, k + 1, <<>>)
    ELSE SplitLocal(t, k + 1, Append(cur, t[k]))

\* packaging.version._parse_local_version: None, or the parts, a numeric part
\* as the decimal text of its integer and any other part in lower case.
ParseLocalVersion(local) ==
    IF local = None THEN None
    ELSE LET ps == SplitLocal(local[1], 1, <<>>)
         IN  Some([k \in 1..Len(ps) |->
                     IF IsDigits(ps[k]) THEN FormatInt(ParseInt(ps[k]))
                     ELSE LowerText(ps[k])])

InvalidVersion ==
    [valid |-> FALSE, epoch |-> 0, release |-> <<>>, pre |-> None, post |-> None,
     dev |-> None, local |-> None]

\* Version(text): the parsed fields, or InvalidVersion when the pattern does
\* not match.
Version(t) ==
    LET m == Search(VersionPattern, VersionGroups, t)
        g == m.group
        rel == Split(g["release"][1], ".")
    IN  IF ~m.matched THEN InvalidVersion
        ELSE [valid |-> TRUE,
              epoch |-> IF g["epoch"] # None THEN ParseInt(g["epoch"][1]) ELSE 0,
              release |-> [k \in 1..Len(rel) |-> ParseInt(rel[k])],
              pre |-> ParseLetterVersion(g["pre_l"], g["pre_n"]),
              post |-> ParseLetterVersion(g["post_l"],
                           IF g["post_n1"] # None THEN g["post_n1"] ELSE g["post_n2"]),
              dev |-> ParseLetterVersion(g["dev_l"], g["dev_n"]),
              local |-> ParseLocalVersion(g["local"])]

ReleaseText(release) == Join(<<".">>, [k \in 1..Len(release) |-> FormatInt(release[k])])

\* The part of Version.__str__ after the release segment.
SuffixText(v) ==
    (IF v.pre # None THEN v.pre[1][1] \o FormatInt(v.pre[1][2]) ELSE <<>>)
    \o (IF v.post # None THEN <<".", "p", "o", "s", "t">> \o FormatInt(v.post[1][2]) ELSE <<>>)
    \o (IF v.dev # None THEN <<".", "d", "e", "v">> \o FormatInt(v.dev[1][2]) ELSE <<>>)
    \o (IF v.local # None THEN <<"+">> \o Join(<<".">>, v.local[1]) ELSE <<>>)

\* Version.__str__
VersionStr(v) ==
    (IF v.epoch # 0 THEN FormatInt(v.epoch) \o <<"!">> ELSE <<>>)
    \o ReleaseText(v.release) \o SuffixText(v)

\* Version.public: str(self).split("+", 1)[0]
VersionPublic(v) == Split(VersionStr(v), "+")[1]

RECURSIVE StripTrailingZeros(_)
StripTrailingZeros(release) ==
    IF Len(release) > 0 /\ release[Len(release)] = 0
    THEN StripTrailingZeros(SubSeq(release, 1, Len(release) - 1))
    ELSE release

\* packaging.version._cmpkey, as far as equality goes: the release without its
\* trailing zeros beside the other fields.
VersionKey(v) == <<v.epoch, StripTrailingZeros(v.release), v.pre, v.post, v.dev, v.local>>

\* Version.__eq__
VersionEq(a, b) == VersionKey(a) = VersionKey(b)

\* re.sub(r"(\.0)+$", "", text)
RECURSIVE StripDotZero(_)
StripDotZero(t) ==
    IF Len(t) >= 2 /\ t[Len(t) - 1] = "." /\ t[Len(t)] = "0"
    THEN StripDotZero(SubSeq(t, 1, Len(t) - 2))
    ELSE t

\* packaging.utils.canonicalize_version(version) for a Version.
CanonicalizeVersion(v) ==
    (IF v.epoch # 0 THEN FormatInt(v.epoch) \o <<"!">> ELSE <<>>)
    \o StripDotZero(ReleaseText(v.release)) \o SuffixText(v)

\* utils.version_replace_fields(version, **fields)
VersionReplaceFields(v, fields) ==
    Version(VersionStr([f \in DOMAIN v |-> IF f \in DOMAIN fields THEN fields[f] ELSE v[f]]))

\* ------------------------------------------------------- version selectors

\* PlaceholderVersionSelector.parts holds "x" or an integer; the wildcard is
\* written as an integer no part can be.
X == -1

NoSelector ==
    [kind |-> "none", epoch |-> None, parts |-> <<>>, mode |-> "", version |-> InvalidVersion]

AnyVersionSelector == [NoSelector EXCEPT !.kind = "any"]

Returned(sel) == [error |-> "none", sel |-> sel]

Raised(kind) == [error |-> kind, sel |-> NoSelector]

\* _format_epoch
FormatEpoch(epoch) ==
    IF epoch = None \/ epoch = Some(0) THEN <<>> ELSE FormatInt(epoch[1]) \o <<"!">>

\* PlaceholderVersionSelector.__init__: int(part) raises ValueError for a part
\* that is not decimal digits.
PlaceholderVersionSelector(epoch, version) ==
    LET ps == Split(version, ".")
    IN  IF \E k \in 1..Len(ps) : ps[k] # <<"x">> /\ ~IsDigits(ps[k])
        THEN Raised("ValueError")
        ELSE Returned([NoSelector EXCEPT
                 !.kind = "placeholder",
                 !.epoch = epoch,
                 !.parts = [k \in 1..Len(ps) |->
                              IF ps[k] = <<"x">> THEN X ELSE ParseInt(ps[k])]])

\* PackagingVersionSelector.__init__ (Mode: MINOR "^", PATCH "~", MAYBE_EXACT "").
\* Its argument is always a Version(...) call: when that call raises
\* InvalidVersion, no selector is built and the error reaches the caller.
PackagingVersionSelector(mode, version) ==
    IF ~version.valid THEN Raised("InvalidVersion")
    ELSE Returned([NoSelector EXCEPT !.kind = "packaging", !.mode = mode, !.version = version])

PartText(part) == IF part = X THEN <<"x">> ELSE FormatInt(part)

\* PlaceholderVersionSelector.__str__
PlaceholderStr(sel) ==
    FormatEpoch(sel.epoch) \o Join(<<".">>, [k \in 1..Len(sel.parts) |-> PartText(sel.parts[k])])

\* VersionSelector.__eq__ of the three classes.
SelectorEq(a, b) ==
    CASE a.kind = "any" -> b.kind = "any"
      [] a.kind = "placeholder" ->
           b.kind = "placeholder" /\ a.epoch = b.epoch /\ a.parts = b.parts
      [] a.kind = "packaging" ->
           b.kind = "packaging" /\ a.mode = b.mode /\ VersionEq(a.version, b.version)
      [] OTHER -> FALSE

\* PlaceholderVersionSelector.canonical
PlaceholderCanonical(sel) ==
    LET parts == sel.parts
        epoch == FormatEpoch(sel.epoch)
    IN  IF parts = <<X>> THEN Returned(AnyVersionSelector)
        ELSE IF (Len(parts) = 2 /\ parts[2] = X)
                \/ (Len(parts) = 3 /\ SubSeq(parts, 2, 3) = <<X, X>>)
        THEN PackagingVersionSelector("^",
                 Version(epoch \o PartText(parts[1]) \o <<".", "0", ".", "0">>))
        ELSE IF Len(parts) = 3 /\ parts[2] # X /\ parts[3] = X
        THEN PackagingVersionSelector("~",
                 Version(epoch \o PartText(parts[1]) \o <<".">> \o PartText(parts[2])
                         \o <<".", "0">>))
        ELSE Returned(sel)

\* PackagingVersionSelector.canonical
PackagingCanonical(sel) ==
    LET parts == Split(VersionPublic(sel.version), ".")
        release == sel.version.release
    IN  IF sel.mode = "" /\ Len(release) = 1
        THEN PackagingVersionSelector("^",
                 VersionReplaceFields(sel.version, [release |-> release \o <<0, 0>>]))
        ELSE IF sel.mode = "" /\ Len(parts) = 2
        THEN PackagingVersionSelector("~",
                 VersionReplaceFields(sel.version, [release |-> release \o <<0>>]))
        ELSE PackagingVersionSelector(sel.mode, Version(CanonicalizeVersion(sel.version)))

\* VersionSelector.canonical
Canonical(sel) ==
    CASE sel.kind = "any" -> Returned(sel)
      [] sel.kind = "placeholder" -> PlaceholderCanonical(sel)
      [] sel.kind = "packaging" -> PackagingCanonical(sel)

\* VersionSelector.spec: <<operator glyph, version text>>.
SelectorSpec(sel) ==
    CASE sel.kind = "any" -> <<<<"*">>, <<>>>>
      [] sel.kind = "placeholder" -> <<<<>>, PlaceholderStr(sel)>>
      [] sel.kind = "packaging" ->
           <<IF sel.mode = "" THEN <<>> ELSE <<sel.mode>>, VersionStr(sel.version)>>

\* ------------------------------------------------------------ the specifier

PlaceholderPart == Alt(<<Plus(Digit), Lit("x")>>)

\* _regex_str, the alternative of a final release and its remainder.
FinalAlternative ==
    Cat(<<
        Group("final", Cat(<<Rep(Cat(<<Plus(Digit), Lit(".")>>), 0, 2), Plus(Digit)>>)),
        Group("remainder", Cat(<<
            Opt(Group("prelease", Cat(<<
                Opt(Separator),
                Alt(<<Word(<<"a">>), Word(<<"b">>), Word(<<"c">>),
                      Word(<<"r", "c">>),
                      Word(<<"a", "l", "p", "h", "a">>),
                      Word(<<"b", "e", "t", "a">>),
                      Word(<<"p", "r", "e">>),
                      Word(<<"p", "r", "e", "v", "i", "e", "w">>)>>),
                Opt(Separator),
                Star(Digit)>>))),
            Opt(Group("postrelease", Alt(<<
                Cat(<<Lit("-"), Plus(Digit)>>),
                Cat(<<Opt(Separator),
                      Alt(<<Word(<<"p", "o", "s", "t">>),
                            Word(<<"r", "e", "v">>),
                            Word(<<"r">>)>>),
                      Opt(Separator),
                      Star(Digit)>>)>>))),
            Opt(Group("devrelease", Cat(<<
                Opt(Cat(<<Opt(Separator), Word(<<"d", "e", "v">>),
                          Opt(Separator), Star(Digit)>>)),
                Opt(Cat(<<Lit("+"), Plus(AlphaNum),
                          Star(Cat(<<Separator, Plus(AlphaNum)>>))>>))>>)))>>))>>)

PlaceholderAfterOperator ==
    Group("placeholder", Cat(<<
        Rep(Cat(<<PlaceholderPart, Lit(".")>>), 0, 2),
        PlaceholderPart>>))

\* _regex_str, the placeholder alternative: only when no operator precedes it.
PlaceholderAlternative ==
    Group("placeholder", Cat(<<
        NotBehind(Alt(<<Lit("^"), Lit("~"), Lit("*")>>)),
        Rep(Cat(<<PlaceholderPart, Lit(".")>>), 0, 2),
        PlaceholderPart>>))

PlaceholderFirst ==
    Alt(<<PlaceholderAlternative, Cat(<<NotBehind(Lit("*")), FinalAlternative>>)>>)

\* _regex_str, what may stand where no "*" precedes: the final release is
\* tried before the placeholder.
VersionAlternatives ==
    Alt(<<Cat(<<NotBehind(Lit("*")), FinalAlternative>>), PlaceholderAlternative>>)

\* SemverSpecifier._regex: _regex_str between "^\s*" and "\s*$".
SpecifierPattern ==
    Cat(<<
        Bos, Star(Space),
        Opt(Group("epoch", Cat(<<Plus(Digit), Lit("!"),
                                 Ahead(Alt(<<Lit("^"), Lit("~"), Empty>>)),
                                 NotAhead(Lit("*"))>>))),
        Group("operator", Alt(<<Lit("^"), Lit("~"), Lit("*"), Empty>>)),
        Group("version", Alt(<<Behind(Lit("*")), VersionAlternatives>>)),
        Star(Space), Eos>>)

SpecifierGroups ==
    {"epoch", "operator", "version", "final", "remainder", "prelease", "postrelease",
     "devrelease", "placeholder"}

\* match.group(name) taken as a condition: None and "" are both false.
Truthy(g) == g # None /\ g # Some(<<>>)

\* SemverSpecifier.__init__: the version selector, or the error raised.
SemverSpecifier(spec) ==
    LET match == Search(SpecifierPattern, SpecifierGroups, spec)
        g == match.group
    IN  IF ~match.matched THEN Raised("InvalidSpecifier")
        ELSE IF Truthy(g["placeholder"])
        THEN PlaceholderVersionSelector(
                 IF Truthy(g["epoch"])
                 THEN Some(ParseInt(SubSeq(g["epoch"][1], 1, Len(g["epoch"][1]) - 1)))
                 ELSE None,
                 g["placeholder"][1])
        ELSE LET epoch == IF Truthy(g["epoch"]) THEN g["epoch"][1] ELSE <<>>
             IN  IF g["operator"] = Some(<<"*">>)
                 THEN IF Len(epoch) > 0 THEN Raised("AssertionError")
                      ELSE Returned(AnyVersionSelector)
                 ELSE PackagingVersionSelector(
                          IF g["operator"][1] = <<>> THEN "" ELSE g["operator"][1][1],
                          Version(epoch \o g["version"][1]))

\* ''.join(selector.spec)
SpecText(sel) == SelectorSpec(sel)[1] \o SelectorSpec(sel)[2]

\* ''.join(SemverSpecifier._canonical_spec) of a specifier with selector sel:
\* the text, or the error canonical raises.
CanonicalSpecText(sel) ==
    LET c == Canonical(sel)
    IN  IF c.error # "none" THEN [error |-> c.error, text |-> <<>>]
        ELSE [error |-> "none", text |-> SpecText(c.sel)]

\* ------------------------------------------------------------------ inputs

\* Epoch prefixes "0!" .. "MaxEpoch!" and bodies of at most MaxParts
\* dot-separated parts.
MaxEpoch == 1

MaxParts == 3

EpochTexts == {<<>>} \cup {FormatInt(e) \o <<"!">> : e \in 0..MaxEpoch}

OperatorTexts == {<<>>, <<"^">>, <<"~">>, <<"*">>}

PartTexts == {<<"0">>, <<"1">>, <<"x">>}

PartBodies == {Join(<<".">>, ps) : ps \in UNION {[1..n -> PartTexts] : n \in 0..MaxParts}}

\* Bodies outside the grammar, an upper-case wildcard, padding.
OtherBodies ==
    {<<"X">>, <<"1", ".", "X">>, <<"1", ".", "0", ".", "y">>, <<"1", ".", "0", ".">>,
     <<"1", ".", ".", "0">>, <<"1", ".", "x", "x">>, <<" ", "1", " ">>, <<"1", "0">>}

SuffixTexts ==
    {<<>>, <<".", "d", "e", "v", "1">>, <<"a", "1">>, <<".", "p", "o", "s", "t", "1">>,
     <<"+", "f">>}

Inputs ==
    [epoch : EpochTexts, operator : OperatorTexts, body : PartBodies \cup OtherBodies,
     suffix : SuffixTexts]

InputText(in) == in.epoch \o in.operator \o in.body \o in.suffix

\* The other spellings of the constraint a bare number N spells.
Spellings(in) ==
    IF in.epoch = <<>> /\ in.operator = <<>> /\ in.suffix = <<>> /\ IsDigits(in.body)
    THEN {in.body \o <<".", "x">>, in.body \o <<".", "x", ".", "x">>,
          <<"^">> \o in.body \o <<".", "0", ".", "0">>}
    ELSE {}

\* The same text behind an epoch.
WithEpoch(in) ==
    IF in.epoch = <<>>
    THEN {FormatInt(e) \o <<"!">> \o InputText(in) : e \in 0..MaxEpoch}
    ELSE {}

\* ------------------------------------------------------------------- state

NotEvaluated == Raised("pending")

NoText == [error |-> "pending", text |-> <<>>]

VARIABLES
    input,          \* the parts the specifier text is made of
    text,           \* the text given to SemverSpecifier
    pc,             \* what has been evaluated
    specifier,      \* SemverSpecifier(text): its version_selector, or the error
    canonical,      \* version_selector.canonical
    canonical2,     \* version_selector.canonical.canonical
    rendered,       \* ''.join(version_selector.spec)
    reparsed,       \* SemverSpecifier(rendered)
    ctext,          \* ''.join(_canonical_spec)
    peerText,       \* the text of a second specifier
    peer,           \* SemverSpecifier(peerText)
    peerCanonical,  \* its version_selector.canonical
    peerCtext       \* its ''.join(_canonical_spec)

vars ==
    <<input, text, pc, specifier, canonical, canonical2, rendered, reparsed, ctext,
      peerText, peer, peerCanonical, peerCtext>>

Init ==
    /\ input \in Inputs
    /\ text = InputText(input)
    /\ pc = "new"
    /\ specifier = NotEvaluated
    /\ canonical = NotEvaluated
    /\ canonical2 = NotEvaluated
    /\ rendered = NoText
    /\ reparsed = NotEvaluated
    /\ ctext = NoText
    /\ peerText = <<>>
    /\ peer = NotEvaluated
    /\ peerCanonical = NotEvaluated
    /\ peerCtext = NoText

\* SemverSpecifier(text)
Construct ==
    /\ pc = "new"
    /\ specifier' = SemverSpecifier(text)
    /\ pc' = IF specifier'.error = "none" THEN "built" ELSE "raised"
    /\ UNCHANGED <<input, text, canonical, canonical2, rendered, reparsed, ctext,
                   peerText, peer, peerCanonical, peerCtext>>

\* specifier.version_selector.canonical
EvalCanonical ==
    /\ pc = "built"
    /\ canonical' = Canonical(specifier.sel)
    /\ pc' = "canonical"
    /\ UNCHANGED <<input, text, specifier, canonical2, rendered, reparsed, ctext,
                   peerText, peer, peerCanonical, peerCtext>>

\* specifier.version_selector.canonical.canonical
EvalCanonicalAgain ==
    /\ pc = "canonical"
    /\ canonical.error = "none"
    /\ canonical2' = Canonical(canonical.sel)
    /\ pc' = "canonical2"
    /\ UNCHANGED <<input, text, specifier, canonical, rendered, reparsed, ctext,
                   peerText, peer, peerCanonical, peerCtext>>

\* ''.join(specifier.version_selector.spec)
EvalSpec ==
    /\ pc = "built"
    /\ rendered' = [error |-> "none", text |-> SpecText(specifier.sel)]
    /\ pc' = "rendered"
    /\ UNCHANGED <<input, text, specifier, canonical, canonical2, reparsed, ctext,
                   peerText, peer, peerCanonical, peerCtext>>

\* SemverSpecifier(rendered)
Reparse ==
    /\ pc = "rendered"
    /\ reparsed' = SemverSpecifier(rendered.text)
    /\ pc' = "reparsed"
    /\ UNCHANGED <<input, text, specifier, canonical, canonical2, rendered, ctext,
                   peerText, peer, peerCanonical, peerCtext>>

\* ''.join(specifier._canonical_spec)
EvalCanonicalSpec ==
    /\ pc = "built"
    /\ canonical' = Canonical(specifier.sel)
    /\ ctext' = CanonicalSpecText(specifier.sel)
    /\ pc' = "ctext"
    /\ UNCHANGED <<input, text, specifier, canonical2, rendered, reparsed,
                   peerText, peer, peerCanonical, peerCtext>>

\* A second specifier: another spelling of the first, or the first behind an epoch.
ConstructPeer ==
    /\ pc = "ctext"
    /\ \E t \in Spellings(input) \cup WithEpoch(input) :
          /\ peerText' = t
          /\ peer' = SemverSpecifier(t)
    /\ pc' = "peer"
    /\ UNCHANGED <<input, text, specifier, canonical, canonical2, rendered, reparsed,
                   ctext, peerCanonical, peerCtext>>

\* ''.join(peer._canonical_spec)
EvalPeerCanonicalSpec ==
    /\ pc = "peer"
    /\ peer.error = "none"
    /\ peerCanonical' = Canonical(peer.sel)
    /\ peerCtext' = CanonicalSpecText(peer.sel)
    /\ pc' = "peerctext"
    /\ UNCHANGED <<input, text, specifier, canonical, canonical2, rendered, reparsed,
                   ctext, peerText, peer>>

Next ==
    \/ Construct
    \/ EvalCanonical
    \/ EvalCanonicalAgain
    \/ EvalSpec
    \/ Reparse
    \/ EvalCanonicalSpec
    \/ ConstructPeer
    \/ EvalPeerCanonicalSpec

Spec == Init /\ [][Next]_vars

\* ------------------------------------------------------------------ claims

Accepted == pc # "new" /\ specifier.error = "none"

\* C1: canonical of the selector of every accepted specifier returns a
\* selector and raises nothing.
C1_CanonicalTotal == pc = "canonical" => canonical.error = "none"

\* C2: canonical is idempotent: the canonical form of the canonical form is
\* equal to the canonical form (same variant, mode and version).
C2_CanonicalIdempotent ==
    pc = "canonical2" =>
        /\ canonical2.error = "none"
        /\ SelectorEq(canonical2.sel, canonical.sel)

\* C3: the concatenation of the selector's spec pair is accepted by the
\* parser and parses to a selector equal to the one rendered.
C3_RenderRoundTrip ==
    pc = "reparsed" =>
        /\ reparsed.error = "none"
        /\ SelectorEq(reparsed.sel, specifier.sel)

\* C4: "N", "N.x", "N.x.x" and "^N.0.0" have the same canonical text: each
\* other spelling's canonical text is that of "N".
C4_SpellingsFold ==
    (pc = "peerctext" /\ peerText \in Spellings(input)) =>
        /\ ctext.error = "none"
        /\ peerCtext.error = "none"
        /\ peerCtext.text = ctext.text

\* The version's text without its epoch.
EpochlessText(v) == VersionStr([v EXCEPT !.epoch = 0])

\* C5: for a nonzero epoch E and a canonical range selector of glyph g and
\* epoch-less version text v, the canonical text is "E!" + g + v.
C5_EpochBeforeOperator ==
    (pc = "ctext" /\ ctext.error = "none" /\ canonical.sel.kind = "packaging"
     /\ canonical.sel.version.epoch # 0) =>
        ctext.text = FormatInt(canonical.sel.version.epoch) \o <<"!">>
                     \o SelectorSpec(canonical.sel)[1]
                     \o EpochlessText(canonical.sel.version)

\* C6: SemverSpecifier(text) returns a specifier or raises InvalidSpecifier,
\* and fails in no other way.
C6_SingleErrorKind == pc # "new" => specifier.error \in {"none", "InvalidSpecifier"}

BothCanonical == pc = "peerctext" /\ ctext.error = "none" /\ peerCtext.error = "none"

\* C7: a body and the same body behind epoch 0 have equal canonical selectors
\* and identical canonical texts.
C7_EpochZeroIsNoEpoch ==
    (BothCanonical /\ peerText = <<"0", "!">> \o text) =>
        /\ SelectorEq(canonical.sel, peerCanonical.sel)
        /\ ctext.text = peerCtext.text

NonZeroEpochPeer ==
    \E e \in 1..MaxEpoch : peerText = FormatInt(e) \o <<"!">> \o text

\* C8: a body and the same body behind a nonzero epoch are distinct selectors
\* with distinct canonical selectors and distinct canonical texts.
C8_NonZeroEpochKept ==
    (BothCanonical /\ NonZeroEpochPeer) =>
        /\ ~SelectorEq(specifier.sel, peer.sel)
        /\ ~SelectorEq(canonical.sel, peerCanonical.sel)
        /\ ctext.text # peerCtext.text

HasWildcardPart(body) == \E k \in 1..Len(Split(body, ".")) : Split(body, ".")[k] = <<"x">>

HasNonSpace(t) == \E k \in 1..Len(t) : t[k] \notin SpaceSet

\* An operator before a body with a wildcard part; "*" behind an epoch or
\* before anything but white space; a body with a wildcard part before a
\* pre, post, dev or local suffix.
IllegalCombination(in) ==
    \/ in.operator # <<>> /\ HasWildcardPart(in.body)
    \/ in.operator = <<"*">> /\ (in.epoch # <<>> \/ HasNonSpace(in.body \o in.suffix))
    \/ HasWildcardPart(in.body) /\ in.suffix # <<>>

\* C9: every illegal combination is rejected with InvalidSpecifier.
C9_IllegalCombinationsRejected ==
    (pc # "new" /\ IllegalCombination(input)) => specifier.error = "InvalidSpecifier"

C9_Witness ==
    /\ pc = "raised"
    /\ specifier.error = "InvalidSpecifier"
    /\ input.operator = <<"~">>
    /\ input.body = <<"1", ".", "x", ".", "x">>
    /\ input.suffix = <<>>

IsPartsBody(t) ==
    /\ Len(Split(t, ".")) \in 1..3
    /\ \A k \in 1..Len(Split(t, ".")) :
          IsDigits(Split(t, ".")[k]) \/ Split(t, ".")[k] = <<"x">>

\* C10: without an operator, an accepted input yields a placeholder selector
\* exactly when its body is 1-3 dot-separated parts with a wildcard among
\* them; an all-numeric body of 1-3 parts yields a packaging selector in mode
\* MAYBE_EXACT; and a placeholder selector has 1-3 parts, one of them "x".
C10_VariantSelection ==
    (Accepted /\ input.operator = <<>>) =>
        LET body == input.body \o input.suffix
        IN  /\ specifier.sel.kind = "placeholder"
                 <=> (IsPartsBody(body) /\ HasWildcardPart(body))
            /\ (IsPartsBody(body) /\ ~HasWildcardPart(body))
                 => (specifier.sel.kind = "packaging" /\ specifier.sel.mode = "")
            /\ specifier.sel.kind = "placeholder"
                 => /\ Len(specifier.sel.parts) \in 1..3
                    /\ \E k \in 1..Len(specifier.sel.parts) : specifier.sel.parts[k] = X

C10_Witness ==
    /\ Accepted
    /\ input.operator = <<>>
    /\ input.epoch = <<"1", "!">>
    /\ input.body = <<"1", ".", "x", ".", "1">>
    /\ specifier.sel.kind = "placeholder"
    /\ specifier.sel.parts = <<1, X, 1>>
====
